---- MODULE Spec2Model ----
(***************************************************************************)
(* amicus: the topic-based publish/subscribe runtime (amicus/common.py)    *)
(* and the worker registry built on it (amicus/server.py).                 *)
(*                                                                         *)
(* The asyncio event loop is modelled by its ready queue: create_task and  *)
(* the wake-up of a suspended coroutine append a callback (call_soon), and *)
(* the loop runs the callbacks in the order they were appended.  Code      *)
(* that calls into the bus from outside a callback of the model (wiring    *)
(* code, socket readers) is the environment: its calls interleave freely   *)
(* with the steps of the loop.                                             *)
(*                                                                         *)
(* Spec is the bus: two registered services, one topic that is created,    *)
(* subscribed to, published to and closed.  SpecReg is the worker          *)
(* registry: the handlers of ClientService under every order of events,    *)
(* with the joins issued by the session handler's counter.                 *)
(***************************************************************************)
EXTENDS Integers, Sequences, FiniteSets, TLC

\* ------------------------------------------------------------- bounds
MaxPub == 2      \* publishes (close_topic included) that reach run_tasks
MaxVal == 2      \* distinct event values 1..MaxVal
MaxSess == 2     \* connections the handler accepts
MaxProg == 1     \* progress values 0..MaxProg
MaxConn == 1     \* connections the listener accepts
MaxLines == 2    \* lines a worker sends

\* ---------------------------------------------------------- constants
QUIT == 0        \* the sentinel object
Recording == 0   \* Client.status
Success == 1
Error == 2
NoId == -1       \* Client.idx of a record whose session has left
NoAwaiter == -1  \* no waiter: ids are counted from 0

Objs == {"o1", "o2"}
\* o3 is a second service object made with the name of o2
AllObjs == Objs \cup {"o3"}
Names == {"s1", "s2"}
TopicNames == {"log", "t1"} \cup Names
Values == 1..MaxVal
\* the topic the environment creates, subscribes to, publishes to and closes
OpTopics == {"t1"}

Ids == 0..(MaxSess - 1)
ProgressVals == 0..MaxProg
\* the cursor values the dashboard can send as the slot of a rename
Cursors == -1..MaxSess
NewNames == {<<"edit", 1>>}

\* Service.name
name(o) == IF o = "o1" THEN "s1" ELSE IF o \in {"o2", "o3"} THEN "s2" ELSE o

VARIABLES
    services,        \* ServiceManager._services : name -> service object
    topics,          \* ServiceManager._topics   : topic -> set of names
    manager,         \* the service objects whose _manager is set
    subs,            \* Service._subs with the state of each consumer loop
    ready,           \* the event loop's queue of ready callbacks
    task_awaiters,   \* ServiceManager._task_awaiters
    awaiter_counter, \* ServiceManager._awaiter_counter
    signalled,       \* the waiters whose _done event is set
    handled,         \* the values each subscription's handler was called on
    expect,          \* the values published to each live subscription
    phase,           \* each (object, topic): none, active, closed, orphan
    closed,          \* topics closed and not created again
    result,          \* the call made by the last step and how it ended
    clients,         \* ClientService.clients
    counter,         \* ClientHandlerService._counter
    joinq,           \* the queue of the registry's client-join subscription
    rename_loop,     \* the consumer loop of the client-rename subscription
    out,             \* the events the last handler published
    assigned,        \* the session id given to each accepted connection
    sess,            \* each session id: what the registry has handled for it
    quit,            \* ServiceManager._quit is set
    wait_pc,         \* where the caller of ServiceManager.wait is
    waiting_on,      \* the waiter whose done() the caller of wait awaits
    coros,           \* the coroutines given to run_as_task, by waiter
    stream,          \* each connection's StreamReader: the lines it buffers
    eof,             \* the connections whose end of stream has arrived
    readers,         \* the _reader of each connection: its id, waiter, state
    fed,             \* the lines each worker has sent
    events           \* the events published on the client-* topics, in order

busVars == <<services, topics, manager, subs, ready, task_awaiters,
             awaiter_counter, signalled, handled, expect, phase, closed>>
regVars == <<clients, counter, joinq, rename_loop, out, assigned, sess>>
extVars == <<quit, wait_pc, waiting_on, coros>>
sessVars == <<stream, eof, readers, fed, events>>
vars == <<busVars, result, regVars, extVars, sessVars>>

\* ------------------------------------------------------------ helpers
Put(f, k, v) == [x \in DOMAIN f \cup {k} |-> IF x = k THEN v ELSE f[x]]
Del(f, k) == [x \in DOMAIN f \ {k} |-> f[x]]

RECURSIVE Perms(_)
Perms(S) ==
    IF S = {} THEN {<<>>}
    ELSE UNION {{<<x>> \o p : p \in Perms(S \ {x})} : x \in S}

RECURSIVE Rep(_, _)
Rep(x, n) == IF n = 0 THEN <<>> ELSE <<x>> \o Rep(x, n - 1)

Res(op, ok) == [op |-> op, ok |-> ok]

\* callbacks of the event loop
Item(kind, o, t, v, k) == [kind |-> kind, obj |-> o, topic |-> t, val |-> v, aw |-> k]
OnPubTask(o, t, v, k) == Item("on_pub", o, t, v, k)
ListenerTask(o, t) == Item("listener", o, t, QUIT, -1)
AwaitTask(k) == Item("await_tasks", "-", "-", QUIT, k)
OnCompletion(k) == Item("on_completion", "-", "-", QUIT, k)
AwaitResume(k) == Item("await_resume", "-", "-", QUIT, k)
CoroTask(k) == Item("coro", "-", "-", QUIT, k)
WaitTask == Item("wait", "-", "-", QUIT, NoAwaiter)

\* ------------------------------------------------------- ServiceManager
\* the assertion of _get_topic
HasTopic(tp, t) == t \in DOMAIN tp

_get_topic(tp, t) == tp[t]

\* create_topic without its assertion
CanCreate_unchecked(tp, t) == TRUE

\* the assertion of create_topic
CanCreate(tp, t) == t \notin DOMAIN tp

create_topic(tp, t) == Put(tp, t, {})

\* TaskAwaiter.__init__ for n tasks, none of them run yet
TaskAwaiter(n) == [total |-> n, done |-> 0, left |-> n, started |-> FALSE]

\* ServiceManager.register: the entry of _services, the topic of the name,
\* the back-reference
register_services(sv, o) == Put(sv, name(o), o)

\* ServiceManager() and then register(o1), register(o2), as Server.__init__
\* registers its services before anything is published
Init ==
    /\ services = register_services(register_services([x \in {} |-> "o1"], "o1"), "o2")
    /\ topics = create_topic(create_topic(create_topic([x \in {} |-> {}], "log"), "s1"), "s2")
    /\ manager = Objs
    /\ subs = [o \in AllObjs |-> [x \in {} |-> 0]]
    /\ ready = <<>>
    /\ task_awaiters = [x \in {} |-> 0]
    /\ awaiter_counter = 0
    /\ signalled = {}
    /\ handled = [o \in AllObjs |-> [t \in TopicNames |-> <<>>]]
    /\ expect = [o \in AllObjs |-> [t \in TopicNames |-> <<>>]]
    /\ phase = [o \in AllObjs |-> [t \in TopicNames |-> "none"]]
    /\ closed = {}
    /\ result = Res("init", TRUE)
    /\ clients = <<>>
    /\ counter = 0
    /\ joinq = <<>>
    /\ rename_loop = "waiting"
    /\ out = <<>>
    /\ assigned = <<>>
    /\ sess = [i \in Ids |-> [st |-> "new", done |-> FALSE, prog |-> 0, slot |-> NoId]]
    /\ quit = FALSE
    /\ wait_pc = "idle"
    /\ waiting_on = NoAwaiter
    /\ coros = [x \in {} |-> "blocked"]
    /\ stream = <<>>
    /\ eof = {}
    /\ readers = <<>>
    /\ fed = <<>>
    /\ events = <<>>

\* ServiceManager.create_topic, called by wiring code
CreateTopic(t) ==
    /\ IF CanCreate(topics, t)
       THEN /\ topics' = create_topic(topics, t)
            /\ closed' = closed \ {t}
            /\ result' = Res("create_topic", TRUE)
            /\ UNCHANGED <<services, manager, subs, ready, task_awaiters,
                           awaiter_counter, signalled, handled, expect, phase>>
       ELSE /\ result' = Res("create_topic", FALSE)
            /\ UNCHANGED busVars
    /\ UNCHANGED <<regVars, extVars, sessVars>>

\* ServiceManager.register (the base __post_init__ does nothing)
Register(o) ==
    /\ services' = register_services(services, o)
    /\ IF CanCreate(topics, name(o))
       THEN /\ topics' = create_topic(topics, name(o))
            /\ manager' = manager \cup {o}
            /\ closed' = closed \ {name(o)}
            /\ result' = Res("register", TRUE)
       ELSE /\ result' = Res("register", FALSE)
            /\ UNCHANGED <<topics, manager, closed>>
    /\ UNCHANGED <<subs, ready, task_awaiters, awaiter_counter, signalled,
                   handled, expect, phase>>
    /\ UNCHANGED <<regVars, extVars, sessVars>>

\* ServiceManager._register_sub: its two assertions, then the add
CanRegisterSub(sv, tp, t, o) == name(o) \in DOMAIN sv /\ HasTopic(tp, t)

_register_sub(tp, t, o) == [tp EXCEPT ![t] = _get_topic(tp, t) \cup {name(o)}]

\* sub without the assertion on _manager
CanSub_unmanaged(sb, mg, o, t) == t \notin DOMAIN sb[o]

\* the two assertions of Service.sub; a service that was never registered has
\* no _manager
CanSub(sb, mg, o, t) == t \notin DOMAIN sb[o] /\ o \in mg

\* Service.sub: the queue and the consumer loop exist before _register_sub runs
Sub(o, t) ==
    /\ IF ~CanSub(subs, manager, o, t)
       THEN /\ result' = Res("sub", FALSE)
            /\ UNCHANGED busVars
       ELSE /\ subs' = [subs EXCEPT ![o] = Put(@, t, [queue |-> <<>>, loop |-> "start"])]
            /\ ready' = Append(ready, ListenerTask(o, t))
            /\ IF CanRegisterSub(services, topics, t, o)
               THEN /\ topics' = _register_sub(topics, t, o)
                    /\ phase' = [phase EXCEPT ![o][t] = "active"]
                    /\ result' = Res("sub", TRUE)
               ELSE /\ phase' = [phase EXCEPT ![o][t] = "orphan"]
                    /\ result' = Res("sub", FALSE)
                    /\ UNCHANGED topics
            /\ UNCHANGED <<services, manager, task_awaiters, awaiter_counter,
                           signalled, handled, expect, closed>>
    /\ UNCHANGED <<regVars, extVars, sessVars>>

\* ServiceManager.pub: one on_pub task per subscriber, in the order the set
\* is iterated, and the waiter's own task after them
pub(sv, tp, t, v, k, order) ==
    [i \in 1..Len(order) |-> OnPubTask(sv[order[i]], t, v, k)] \o <<AwaitTask(k)>>

\* the values a live subscription is owed: those published while it is active
Owed(t, v) ==
    [o \in AllObjs |-> [x \in TopicNames |->
        IF x = t /\ phase[o][t] = "active" THEN Append(expect[o][x], v)
        ELSE expect[o][x]]]

Pub(t, v) ==
    /\ IF HasTopic(topics, t)
       THEN /\ awaiter_counter < MaxPub
            /\ \E order \in Perms(_get_topic(topics, t)) :
                   ready' = ready \o pub(services, topics, t, v, awaiter_counter, order)
            /\ task_awaiters' = Put(task_awaiters, awaiter_counter,
                                    TaskAwaiter(Cardinality(_get_topic(topics, t))))
            /\ awaiter_counter' = awaiter_counter + 1
            /\ expect' = Owed(t, v)
            /\ result' = Res("pub", TRUE)
            /\ UNCHANGED <<services, topics, manager, subs, signalled, handled,
                           phase, closed>>
       ELSE /\ result' = Res("pub", FALSE)
            /\ UNCHANGED busVars
    /\ UNCHANGED <<regVars, extVars, sessVars>>

\* close_topic without its del: the topic stays registered
close_topic_kept(tp, t) == tp

\* the del of close_topic
close_topic(tp, t) == Del(tp, t)

\* ServiceManager.close_topic: pub(topic, QUIT), then the del
CloseTopic(t) ==
    /\ IF HasTopic(topics, t)
       THEN /\ awaiter_counter < MaxPub
            /\ \E order \in Perms(_get_topic(topics, t)) :
                   ready' = ready \o pub(services, topics, t, QUIT, awaiter_counter, order)
            /\ task_awaiters' = Put(task_awaiters, awaiter_counter,
                                    TaskAwaiter(Cardinality(_get_topic(topics, t))))
            /\ awaiter_counter' = awaiter_counter + 1
            /\ topics' = close_topic(topics, t)
            /\ closed' = closed \cup {t}
            /\ phase' = [o \in AllObjs |-> [x \in TopicNames |->
                   IF x = t /\ phase[o][t] = "active" THEN "closed" ELSE phase[o][x]]]
            /\ result' = Res("close_topic", TRUE)
            /\ UNCHANGED <<services, manager, subs, signalled, handled, expect>>
       ELSE /\ result' = Res("close_topic", FALSE)
            /\ UNCHANGED busVars
    /\ UNCHANGED <<regVars, extVars, sessVars>>

\* ------------------------------------------------------ the event loop
\* a put at the head of the queue
on_pub_front(q, v) == <<v>> \o q

\* Queue.put on an unbounded queue
on_pub(q, v) == Append(q, v)

\* Service.on_pub as a task: the assertion, put (which wakes a waiting
\* getter), and the task's completion, which calls the done callbacks
RunOnPub ==
    /\ ready # <<>>
    /\ Head(ready).kind = "on_pub"
    /\ LET it == Head(ready)
           o == it.obj
           t == it.topic
           k == it.aw
           ok == t \in DOMAIN subs[o]
           wake == ok /\ subs[o][t].loop = "waiting"
       IN /\ subs' = IF ok
                     THEN [subs EXCEPT ![o][t] =
                            [queue |-> on_pub(@.queue, it.val),
                             loop |-> IF wake THEN "woken" ELSE @.loop]]
                     ELSE subs
          /\ task_awaiters' = [task_awaiters EXCEPT ![k].done = @ + 1]
          /\ ready' = Tail(ready)
                        \o (IF wake THEN <<ListenerTask(o, t)>> ELSE <<>>)
                        \o (IF task_awaiters[k].started THEN <<OnCompletion(k)>> ELSE <<>>)
          /\ result' = Res("on_pub", ok)
    /\ UNCHANGED <<services, topics, manager, awaiter_counter, signalled,
                   handled, expect, phase, closed>>
    /\ UNCHANGED <<regVars, extVars, sessVars>>

\* the values owed after a publish of v to t, as Owed, on a given record
Owe(ex, t, v) ==
    [o \in DOMAIN ex |-> [x \in DOMAIN ex[o] |->
        IF x = t /\ phase[o][t] = "active" THEN Append(ex[o][x], v)
        ELSE ex[o][x]]]

\* the func given to sub, called on the event v: whether it returns, and the
\* (topic, value) pairs it publishes.  The handler o1 gives for the topic
\* of s2 publishes what it gets on its own topic, as the handlers of
\* server.py publish on the topics of their service; the handler o1 gives
\* for log raises on the value 1, as on_rename and client_update raise on
\* some events; every other handler returns and publishes nothing.
func(o, t, v) ==
    IF o = "o1" /\ t = "s2"
    THEN IF HasTopic(topics, "s1")
         THEN [ok |-> TRUE, pubs |-> <<<<"s1", v>>>>]
         ELSE [ok |-> FALSE, pubs |-> <<>>]
    ELSE IF o = "o1" /\ t = "log" /\ v = 1
    THEN [ok |-> FALSE, pubs |-> <<>>]
    ELSE [ok |-> TRUE, pubs |-> <<>>]

\* _topic_listener from its await of queue.get to its next suspension: the
\* handlers never suspend, so the loop takes every queued event in one step;
\* an exception of the handler ends the task
\* a consumer loop without the test for the sentinel
RECURSIVE _topic_listener_untested(_, _, _, _, _)
_topic_listener_untested(o, t, q, h, ps) ==
    IF q = <<>> THEN [queue |-> q, handled |-> h, loop |-> "waiting", pubs |-> ps]
    ELSE IF ~func(o, t, Head(q)).ok
    THEN [queue |-> Tail(q), handled |-> h, loop |-> "failed", pubs |-> ps]
    ELSE _topic_listener_untested(o, t, Tail(q), Append(h, Head(q)),
                                  ps \o func(o, t, Head(q)).pubs)

\* a consumer loop that goes on to the next event when the handler raises
RECURSIVE _topic_listener_swallowing(_, _, _, _, _)
_topic_listener_swallowing(o, t, q, h, ps) ==
    IF q = <<>> THEN [queue |-> q, handled |-> h, loop |-> "waiting", pubs |-> ps]
    ELSE IF Head(q) = QUIT
    THEN [queue |-> Tail(q), handled |-> h, loop |-> "done", pubs |-> ps]
    ELSE IF ~func(o, t, Head(q)).ok
    THEN _topic_listener_swallowing(o, t, Tail(q), h, ps)
    ELSE _topic_listener_swallowing(o, t, Tail(q), Append(h, Head(q)),
                                    ps \o func(o, t, Head(q)).pubs)

RECURSIVE _topic_listener(_, _, _, _, _)
_topic_listener(o, t, q, h, ps) ==
    IF q = <<>> THEN [queue |-> q, handled |-> h, loop |-> "waiting", pubs |-> ps]
    ELSE IF Head(q) = QUIT
    THEN [queue |-> Tail(q), handled |-> h, loop |-> "done", pubs |-> ps]
    ELSE IF ~func(o, t, Head(q)).ok
    THEN [queue |-> Tail(q), handled |-> h, loop |-> "failed", pubs |-> ps]
    ELSE _topic_listener(o, t, Tail(q), Append(h, Head(q)),
                         ps \o func(o, t, Head(q)).pubs)

\* the calls of ServiceManager.pub a handler makes, in order: the tasks, the
\* waiter and what the subscribers are owed after each; ord gives the order
\* in which a subscriber set is iterated
RECURSIVE handler_pubs(_, _, _)
handler_pubs(ps, st, ord) ==
    IF ps = <<>> THEN st
    ELSE LET t == Head(ps)[1]
             v == Head(ps)[2]
             k == st.awaiter_counter
             order == SelectSeq(ord, LAMBDA n : n \in _get_topic(topics, t))
         IN handler_pubs(Tail(ps),
                [ready |-> st.ready \o pub(services, topics, t, v, k, order),
                 task_awaiters |-> Put(st.task_awaiters, k, TaskAwaiter(Len(order))),
                 awaiter_counter |-> k + 1,
                 expect |-> Owe(st.expect, t, v)], ord)

RunListener ==
    /\ ready # <<>>
    /\ Head(ready).kind = "listener"
    /\ LET o == Head(ready).obj
           t == Head(ready).topic
           r == _topic_listener(o, t, subs[o][t].queue, handled[o][t], <<>>)
       IN /\ subs' = [subs EXCEPT ![o][t] = [queue |-> r.queue, loop |-> r.loop]]
          /\ handled' = [handled EXCEPT ![o][t] = r.handled]
          /\ \E ord \in Perms(Names) :
                LET st == handler_pubs(r.pubs,
                             [ready |-> Tail(ready), task_awaiters |-> task_awaiters,
                              awaiter_counter |-> awaiter_counter, expect |-> expect],
                             ord)
                IN /\ ready' = st.ready
                   /\ task_awaiters' = st.task_awaiters
                   /\ awaiter_counter' = st.awaiter_counter
                   /\ expect' = st.expect
    /\ result' = Res("listener", TRUE)
    /\ UNCHANGED <<services, topics, manager, signalled, phase, closed>>
    /\ UNCHANGED <<regVars, extVars, sessVars>>

\* _done.set(): the caller of wait that awaits this waiter's done() is woken
done_set(k) ==
    IF wait_pc = "done_wait" /\ waiting_on = k THEN <<WaitTask>> ELSE <<>>

\* _await_tasks that awaits no task
has_tasks_unawaited(a) == FALSE

\* `if self._tasks`
has_tasks(a) == a.total # 0

\* TaskAwaiter._await_tasks up to its first suspension: asyncio.wait adds a
\* done callback to every task, and one on a finished task is called soon
RunAwaitTasks ==
    /\ ready # <<>>
    /\ Head(ready).kind = "await_tasks"
    /\ LET k == Head(ready).aw
           a == task_awaiters[k]
       IN IF ~has_tasks(a)
          THEN /\ task_awaiters' = Del(task_awaiters, k)
               /\ signalled' = signalled \cup {k}
               /\ ready' = Tail(ready) \o done_set(k)
          ELSE /\ task_awaiters' = [task_awaiters EXCEPT ![k].started = TRUE]
               /\ ready' = Tail(ready) \o Rep(OnCompletion(k), a.done)
               /\ UNCHANGED signalled
    /\ result' = Res("await_tasks", TRUE)
    /\ UNCHANGED <<services, topics, manager, subs, awaiter_counter, handled,
                   expect, phase, closed>>
    /\ UNCHANGED <<regVars, extVars, sessVars>>

\* asyncio.wait's _on_completion: the last one resumes _await_tasks
RunOnCompletion ==
    /\ ready # <<>>
    /\ Head(ready).kind = "on_completion"
    /\ LET k == Head(ready).aw
       IN /\ task_awaiters' = [task_awaiters EXCEPT ![k].left = @ - 1]
          /\ ready' = Tail(ready)
                \o (IF task_awaiters[k].left = 1 THEN <<AwaitResume(k)>> ELSE <<>>)
    /\ result' = Res("on_completion", TRUE)
    /\ UNCHANGED <<services, topics, manager, subs, awaiter_counter, signalled,
                   handled, expect, phase, closed>>
    /\ UNCHANGED <<regVars, extVars, sessVars>>

\* TaskAwaiter._await_tasks after asyncio.wait: the del and _done.set()
RunAwaitResume ==
    /\ ready # <<>>
    /\ Head(ready).kind = "await_resume"
    /\ task_awaiters' = Del(task_awaiters, Head(ready).aw)
    /\ signalled' = signalled \cup {Head(ready).aw}
    /\ ready' = Tail(ready) \o done_set(Head(ready).aw)
    /\ result' = Res("await_resume", TRUE)
    /\ UNCHANGED <<services, topics, manager, subs, awaiter_counter, handled,
                   expect, phase, closed>>
    /\ UNCHANGED <<regVars, extVars, sessVars>>

\* ------------------------------------------- run_as_task and the drain
\* ServiceManager.run_as_task: the task of the coroutine, then its waiter
RunAsTask ==
    /\ awaiter_counter < MaxPub
    /\ ready' = ready \o <<CoroTask(awaiter_counter), AwaitTask(awaiter_counter)>>
    /\ task_awaiters' = Put(task_awaiters, awaiter_counter, TaskAwaiter(1))
    /\ coros' = Put(coros, awaiter_counter, "new")
    /\ awaiter_counter' = awaiter_counter + 1
    /\ result' = Res("run_as_task", TRUE)
    /\ UNCHANGED <<services, topics, manager, subs, signalled, handled, expect,
                   phase, closed>>
    /\ UNCHANGED <<sessVars, regVars, quit, wait_pc, waiting_on>>

\* a step of a coroutine given to run_as_task, such as _reader: it runs up to
\* its await of an outside event and, woken by the event, returns; the
\* task's completion calls the done callbacks
RunCoro ==
    /\ ready # <<>>
    /\ Head(ready).kind = "coro"
    /\ LET k == Head(ready).aw
       IN IF coros[k] = "new"
          THEN /\ coros' = [coros EXCEPT ![k] = "blocked"]
               /\ ready' = Tail(ready)
               /\ UNCHANGED task_awaiters
          ELSE /\ coros' = [coros EXCEPT ![k] = "done"]
               /\ task_awaiters' = [task_awaiters EXCEPT ![k].done = @ + 1]
               /\ ready' = Tail(ready)
                    \o (IF task_awaiters[k].started THEN <<OnCompletion(k)>> ELSE <<>>)
    /\ result' = Res("coro", TRUE)
    /\ UNCHANGED <<services, topics, manager, subs, awaiter_counter, signalled,
                   handled, expect, phase, closed>>
    /\ UNCHANGED <<sessVars, regVars, quit, wait_pc, waiting_on>>

\* the outside event a coroutine awaits (the end of a stream) happens
CoroEvent(k) ==
    /\ k \in DOMAIN coros
    /\ coros[k] = "blocked"
    /\ coros' = [coros EXCEPT ![k] = "woken"]
    /\ ready' = ready \o <<CoroTask(k)>>
    /\ UNCHANGED <<services, topics, manager, subs, task_awaiters, awaiter_counter,
                   signalled, handled, expect, phase, closed, result>>
    /\ UNCHANGED <<sessVars, regVars, quit, wait_pc, waiting_on>>

\* a drain that returns without looking at the outstanding waiters
wait_undrained(ta) == [pc |-> "returned", on |-> NoAwaiter]

\* the loop of ServiceManager.wait up to its next suspension: it awaits the
\* first waiter of the dict, the one registered first, or returns
wait(ta) ==
    IF DOMAIN ta = {} THEN [pc |-> "returned", on |-> NoAwaiter]
    ELSE [pc |-> "done_wait",
          on |-> CHOOSE k \in DOMAIN ta : \A j \in DOMAIN ta : k <= j]

\* a call of ServiceManager.wait, as amain makes: it awaits _quit, which the
\* call does not set, and goes on to the loop if _quit is set already
Wait ==
    /\ wait_pc = "idle"
    /\ IF quit
       THEN /\ wait_pc' = wait(task_awaiters).pc
            /\ waiting_on' = wait(task_awaiters).on
       ELSE /\ wait_pc' = "quit_wait"
            /\ UNCHANGED waiting_on
    /\ result' = Res("wait", TRUE)
    /\ UNCHANGED <<sessVars, busVars, regVars, quit, coros>>

\* _quit.set(): no code of the repository calls it; code that holds the
\* manager can
SetQuit ==
    /\ ~quit
    /\ quit' = TRUE
    /\ ready' = ready \o (IF wait_pc = "quit_wait" THEN <<WaitTask>> ELSE <<>>)
    /\ UNCHANGED <<services, topics, manager, subs, task_awaiters, awaiter_counter,
                   signalled, handled, expect, phase, closed, result>>
    /\ UNCHANGED <<sessVars, regVars, wait_pc, waiting_on, coros>>

\* wait resumes, after _quit.wait() or after a waiter's done()
RunWait ==
    /\ ready # <<>>
    /\ Head(ready).kind = "wait"
    /\ wait_pc' = wait(task_awaiters).pc
    /\ waiting_on' = wait(task_awaiters).on
    /\ ready' = Tail(ready)
    /\ result' = Res(wait_pc, TRUE)
    /\ UNCHANGED <<services, topics, manager, subs, task_awaiters, awaiter_counter,
                   signalled, handled, expect, phase, closed>>
    /\ UNCHANGED <<sessVars, regVars, quit, coros>>

\* the bus after the wiring o1.sub(s2, func) and o2.sub(s1, func): the
\* consumer loops are created and have not run yet
InitDrain ==
    /\ services = register_services(register_services([x \in {} |-> "o1"], "o1"), "o2")
    /\ topics = _register_sub(_register_sub(
                    create_topic(create_topic(create_topic([x \in {} |-> {}], "log"), "s1"), "s2"),
                    "s2", "o1"), "s1", "o2")
    /\ manager = Objs
    /\ subs = [o \in AllObjs |->
                 Put([x \in {} |-> 0], IF o = "o1" THEN "s2" ELSE "s1",
                     [queue |-> <<>>, loop |-> "start"])]
    /\ ready = <<ListenerTask("o1", "s2"), ListenerTask("o2", "s1")>>
    /\ task_awaiters = [x \in {} |-> 0]
    /\ awaiter_counter = 0
    /\ signalled = {}
    /\ handled = [o \in AllObjs |-> [t \in TopicNames |-> <<>>]]
    /\ expect = [o \in AllObjs |-> [t \in TopicNames |-> <<>>]]
    /\ phase = [o \in AllObjs |-> [t \in TopicNames |->
                  IF (o = "o1" /\ t = "s2") \/ (o = "o2" /\ t = "s1")
                  THEN "active" ELSE "none"]]
    /\ closed = {}
    /\ result = Res("init", TRUE)
    /\ clients = <<>>
    /\ counter = 0
    /\ joinq = <<>>
    /\ rename_loop = "waiting"
    /\ out = <<>>
    /\ assigned = <<>>
    /\ sess = [i \in Ids |-> [st |-> "new", done |-> FALSE, prog |-> 0, slot |-> NoId]]
    /\ quit = FALSE
    /\ wait_pc = "idle"
    /\ waiting_on = NoAwaiter
    /\ coros = [x \in {} |-> "blocked"]
    /\ stream = <<>>
    /\ eof = {}
    /\ readers = <<>>
    /\ fed = <<>>
    /\ events = <<>>

NextDrain ==
    \/ \E v \in Values : Pub("s2", v)
    \/ RunAsTask
    \/ \E k \in 0..MaxPub : CoroEvent(k)
    \/ Wait
    \/ SetQuit
    \/ RunWait
    \/ RunCoro
    \/ RunOnPub
    \/ RunListener
    \/ RunAwaitTasks
    \/ RunOnCompletion
    \/ RunAwaitResume

SpecDrain == InitDrain /\ [][NextDrain]_vars

\* the subscriptions of the wiring, as (object, topic), in the order of the
\* calls of sub
Wiring == <<<<"o1", "log">>, <<"o2", "log">>, <<"o1", "s2">>, <<"o2", "s1">>>>
Wired(o, t) == \E i \in 1..Len(Wiring) : Wiring[i] = <<o, t>>

\* the bus after the wiring: both services have subscribed to log, o1 to the
\* topic of s2 and o2 to the topic of s1
InitCrash ==
    /\ services = register_services(register_services([x \in {} |-> "o1"], "o1"), "o2")
    /\ topics = [t \in {"log", "s1", "s2"} |-> {name(o) : o \in {x \in Objs : Wired(x, t)}}]
    /\ manager = Objs
    /\ subs = [o \in AllObjs |->
                 [t \in {x \in TopicNames : Wired(o, x)} |-> [queue |-> <<>>, loop |-> "start"]]]
    /\ ready = [i \in 1..Len(Wiring) |-> ListenerTask(Wiring[i][1], Wiring[i][2])]
    /\ task_awaiters = [x \in {} |-> 0]
    /\ awaiter_counter = 0
    /\ signalled = {}
    /\ handled = [o \in AllObjs |-> [t \in TopicNames |-> <<>>]]
    /\ expect = [o \in AllObjs |-> [t \in TopicNames |-> <<>>]]
    /\ phase = [o \in AllObjs |-> [t \in TopicNames |->
                  IF Wired(o, t) THEN "active" ELSE "none"]]
    /\ closed = {}
    /\ result = Res("init", TRUE)
    /\ clients = <<>>
    /\ counter = 0
    /\ joinq = <<>>
    /\ rename_loop = "waiting"
    /\ out = <<>>
    /\ assigned = <<>>
    /\ sess = [i \in Ids |-> [st |-> "new", done |-> FALSE, prog |-> 0, slot |-> NoId]]
    /\ quit = FALSE
    /\ wait_pc = "idle"
    /\ waiting_on = NoAwaiter
    /\ coros = [x \in {} |-> "blocked"]
    /\ stream = <<>>
    /\ eof = {}
    /\ readers = <<>>
    /\ fed = <<>>
    /\ events = <<>>

\* the topics the environment publishes to
CrashTopics == {"log", "s2"}

NextCrash ==
    \/ \E t \in CrashTopics, v \in Values : Pub(t, v)
    \/ RunOnPub
    \/ RunListener
    \/ RunAwaitTasks
    \/ RunOnCompletion
    \/ RunAwaitResume

SpecCrash == InitCrash /\ [][NextCrash]_vars

\* ServiceManager(): no service is registered
InitBoot ==
    /\ services = [x \in {} |-> "o1"]
    /\ topics = create_topic([x \in {} |-> {}], "log")
    /\ manager = {}
    /\ subs = [o \in AllObjs |-> [x \in {} |-> 0]]
    /\ ready = <<>>
    /\ task_awaiters = [x \in {} |-> 0]
    /\ awaiter_counter = 0
    /\ signalled = {}
    /\ handled = [o \in AllObjs |-> [t \in TopicNames |-> <<>>]]
    /\ expect = [o \in AllObjs |-> [t \in TopicNames |-> <<>>]]
    /\ phase = [o \in AllObjs |-> [t \in TopicNames |-> "none"]]
    /\ closed = {}
    /\ result = Res("init", TRUE)
    /\ clients = <<>>
    /\ counter = 0
    /\ joinq = <<>>
    /\ rename_loop = "waiting"
    /\ out = <<>>
    /\ assigned = <<>>
    /\ sess = [i \in Ids |-> [st |-> "new", done |-> FALSE, prog |-> 0, slot |-> NoId]]
    /\ quit = FALSE
    /\ wait_pc = "idle"
    /\ waiting_on = NoAwaiter
    /\ coros = [x \in {} |-> "blocked"]
    /\ stream = <<>>
    /\ eof = {}
    /\ readers = <<>>
    /\ fed = <<>>
    /\ events = <<>>

\* the two service objects that have the name s2
SameName == {"o2", "o3"}

NextBoot ==
    \/ \E t \in OpTopics : CreateTopic(t)
    \/ \E o \in SameName : Register(o)
    \/ \E o \in SameName, t \in OpTopics : Sub(o, t)
    \/ \E t \in OpTopics, v \in Values : Pub(t, v)
    \/ \E t \in OpTopics : CloseTopic(t)
    \/ RunOnPub
    \/ RunListener
    \/ RunAwaitTasks
    \/ RunOnCompletion
    \/ RunAwaitResume

SpecBoot == InitBoot /\ [][NextBoot]_vars

\* ------------------------------------------------- the worker registry
\* f'{self.name}/{idx}'
Prefix(idx) == <<"handler", idx>>

\* ClientService.Client
Client(idx, status, nm, progress, listidx) ==
    [idx |-> idx, status |-> status, name |-> nm, progress |-> progress,
     listidx |-> listidx]

\* Service.log and ClientService._refresh, as the event they publish
Log(level) == <<"log", level>>
Refresh(cs, k) == <<"client-refresh", cs[k].listidx>>

\* the first record of the list, whatever its id
get_client_first(cs, idx) == IF cs = <<>> THEN 0 ELSE 1

\* ClientService.get_client: the position of the first record with this id,
\* 0 for None
get_client(cs, idx) ==
    IF \E k \in 1..Len(cs) : cs[k].idx = idx
    THEN CHOOSE k \in 1..Len(cs) :
            cs[k].idx = idx /\ \A j \in 1..(k - 1) : cs[j].idx # idx
    ELSE 0

\* new_client without the increment of the counter
new_client_stuck(c) == [idx |-> c, counter |-> c]

\* ClientHandlerService.new_client: the session id and the counter after it
new_client(c) == [idx |-> c, counter |-> c + 1]

\* on_client_join that never looks for a record to reuse
on_client_join_append(cs, idx, prefix) ==
    [clients |-> Append(cs, Client(idx, Recording, prefix, 0, Len(cs))),
     out |-> <<Log(0), Refresh(Append(cs, Client(idx, Recording, prefix, 0, Len(cs))), Len(cs) + 1)>>]

\* on_client_join that gives a reused record a new slot
on_client_join_reslot(cs, idx, prefix) ==
    LET k == get_client(cs, NoId)
        new == Append(cs, Client(idx, Recording, prefix, 0, Len(cs)))
    IN IF k # 0
       THEN [clients |-> [cs EXCEPT ![k].idx = idx, ![k].status = Recording,
                                    ![k].progress = 0, ![k].listidx = Len(cs)],
             out |-> <<Refresh(cs, k)>>]
       ELSE [clients |-> new, out |-> <<Log(0), Refresh(new, Len(new))>>]

\* ClientService.on_client_join
on_client_join(cs, idx, prefix) ==
    LET k == get_client(cs, NoId)
        new == Append(cs, Client(idx, Recording, prefix, 0, Len(cs)))
    IN IF k # 0
       THEN [clients |-> [cs EXCEPT ![k].idx = idx, ![k].status = Recording,
                                    ![k].progress = 0],
             out |-> <<Refresh(cs, k)>>]
       ELSE [clients |-> new, out |-> <<Log(0), Refresh(new, Len(new))>>]

\* on_client_progress that makes a record for an id it does not know
on_client_progress_phantom(cs, idx, progress) ==
    LET k == get_client(cs, idx)
        new == Append(cs, Client(idx, Recording, Prefix(idx), progress, Len(cs)))
    IN IF k # 0
       THEN [clients |-> [cs EXCEPT ![k].progress = progress],
             out |-> <<Refresh(cs, k)>>]
       ELSE [clients |-> new, out |-> <<Log(2)>>]

\* ClientService.on_client_progress
on_client_progress(cs, idx, progress) ==
    LET k == get_client(cs, idx)
    IN IF k # 0
       THEN [clients |-> [cs EXCEPT ![k].progress = progress],
             out |-> <<Refresh(cs, k)>>]
       ELSE [clients |-> cs, out |-> <<Log(2)>>]

\* ClientService.on_client_done
on_client_done(cs, idx) ==
    LET k == get_client(cs, idx)
    IN IF k # 0
       THEN [clients |-> [cs EXCEPT ![k].status = Success],
             out |-> <<Refresh(cs, k)>>]
       ELSE [clients |-> cs, out |-> <<Log(2)>>]

\* on_client_leave without the test of the status
on_client_leave_untested(cs, idx) ==
    LET k == get_client(cs, idx)
    IN IF k # 0
       THEN [clients |-> [cs EXCEPT ![k].idx = NoId, ![k].status = Error],
             out |-> <<Log(2), Refresh(cs, k)>>]
       ELSE [clients |-> cs, out |-> <<Log(2)>>]

\* ClientService.on_client_leave
on_client_leave(cs, idx) ==
    LET k == get_client(cs, idx)
    IN IF k # 0
       THEN IF cs[k].status # Success
            THEN [clients |-> [cs EXCEPT ![k].idx = NoId, ![k].status = Error],
                  out |-> <<Log(2), Refresh(cs, k)>>]
            ELSE [clients |-> [cs EXCEPT ![k].idx = NoId],
                  out |-> <<Refresh(cs, k)>>]
       ELSE [clients |-> cs, out |-> <<Log(2)>>]

\* self.clients[idx] of on_rename: the position a Python list index names,
\* 0 for an IndexError
ListIndex(cs, idx) ==
    IF 0 <= idx /\ idx < Len(cs) THEN idx + 1
    ELSE IF idx < 0 /\ -idx <= Len(cs) THEN Len(cs) + idx + 1
    ELSE 0

\* ClientService.on_rename, for an index that is in the list
on_rename(cs, idx, newname) ==
    [clients |-> [cs EXCEPT ![ListIndex(cs, idx)].name = newname],
     out |-> <<Refresh(cs, ListIndex(cs, idx))>>]

\* ClientHandlerService.new_client, as far as the registry sees it: the next
\* session id and the client-join event, which its on_pub task puts in the
\* queue of the registry's subscription
NewClient ==
    /\ Len(assigned) < MaxSess
    /\ counter' = new_client(counter).counter
    /\ assigned' = Append(assigned, new_client(counter).idx)
    /\ joinq' = Append(joinq, <<new_client(counter).idx, Prefix(new_client(counter).idx)>>)
    /\ out' = <<<<"client-join", new_client(counter).idx>>, Log(0)>>
    /\ UNCHANGED <<clients, rename_loop, sess>>
    /\ UNCHANGED <<busVars, result, extVars, sessVars>>

\* the consumer loop of client-join calls on_client_join
OnClientJoin ==
    /\ joinq # <<>>
    /\ LET idx == Head(joinq)[1]
           r == on_client_join(clients, idx, Head(joinq)[2])
       IN /\ clients' = r.clients
          /\ out' = r.out
          /\ sess' = [sess EXCEPT ![idx] =
                        [st |-> "live", done |-> FALSE, prog |-> 0,
                         slot |-> r.clients[get_client(r.clients, idx)].listidx]]
    /\ joinq' = Tail(joinq)
    /\ UNCHANGED <<counter, rename_loop, assigned>>
    /\ UNCHANGED <<busVars, result, extVars, sessVars>>

\* the consumer loop of client-progress calls on_client_progress
OnClientProgress(i, v) ==
    /\ clients' = on_client_progress(clients, i, v).clients
    /\ out' = on_client_progress(clients, i, v).out
    /\ sess' = IF sess[i].st = "live" THEN [sess EXCEPT ![i].prog = v] ELSE sess
    /\ UNCHANGED <<counter, joinq, rename_loop, assigned>>
    /\ UNCHANGED <<busVars, result, extVars, sessVars>>

\* the consumer loop of client-done calls on_client_done
OnClientDone(i) ==
    /\ clients' = on_client_done(clients, i).clients
    /\ out' = on_client_done(clients, i).out
    /\ sess' = IF sess[i].st = "live" THEN [sess EXCEPT ![i].done = TRUE] ELSE sess
    /\ UNCHANGED <<counter, joinq, rename_loop, assigned>>
    /\ UNCHANGED <<busVars, result, extVars, sessVars>>

\* the consumer loop of client-leave calls on_client_leave
OnClientLeave(i) ==
    /\ clients' = on_client_leave(clients, i).clients
    /\ out' = on_client_leave(clients, i).out
    /\ sess' = IF sess[i].st = "live" THEN [sess EXCEPT ![i].st = "gone"] ELSE sess
    /\ UNCHANGED <<counter, joinq, rename_loop, assigned>>
    /\ UNCHANGED <<busVars, result, extVars, sessVars>>

\* the consumer loop of client-rename calls on_rename; an IndexError ends
\* the loop
OnRename(idx, newname) ==
    /\ rename_loop = "waiting"
    /\ IF ListIndex(clients, idx) # 0
       THEN /\ clients' = on_rename(clients, idx, newname).clients
            /\ out' = on_rename(clients, idx, newname).out
            /\ UNCHANGED rename_loop
       ELSE /\ rename_loop' = "failed"
            /\ out' = <<>>
            /\ UNCHANGED clients
    /\ UNCHANGED <<counter, joinq, assigned, sess>>
    /\ UNCHANGED <<busVars, result, extVars, sessVars>>

\* -------------------------------------------------- the session handler
\* the lines a worker sends, without the newline
Lines == {"", "done", "keepalive", "progress", "progress 50", "progress x",
          "progress 1 2", "progress a b", "progress 1 0", "alert", "alert low"}

\* line.decode().split()
split(line) ==
    CASE line = "" -> <<>>
      [] line = "done" -> <<"done">>
      [] line = "keepalive" -> <<"keepalive">>
      [] line = "progress" -> <<"progress">>
      [] line = "progress 50" -> <<"progress", "50">>
      [] line = "progress x" -> <<"progress", "x">>
      [] line = "progress 1 2" -> <<"progress", "1", "2">>
      [] line = "progress a b" -> <<"progress", "a", "b">>
      [] line = "progress 1 0" -> <<"progress", "1", "0">>
      [] line = "alert" -> <<"alert">>
      [] line = "alert low" -> <<"alert", "low">>

\* int(tok) and float(tok): the tokens they accept and their value
IsNum(tok) == tok \in {"0", "1", "2", "50"}
Num(tok) == CASE tok = "0" -> 0 [] tok = "1" -> 1 [] tok = "2" -> 2 [] tok = "50" -> 50

\* the quotient a / b, kept as the pair; a progress that is the raw token
Ratio(a, b) == <<"ratio", a, b>>
Raw(tok) == <<"raw", tok>>

\* f'{prefix}/{leaf}': the topics new_client creates for the session idx
SessTopic(idx, leaf) == "handler/" \o ToString(idx) \o "/" \o leaf
SessLeaves == <<"progress", "alert", "recv", "send", "keepalive">>

\* what a handler call gives: whether it returned, and its publishes in order
Returns(ps) == [ok |-> TRUE, pubs |-> ps]
Raises == [ok |-> FALSE, pubs |-> <<>>]

\* new_client.client_update: every exception is raised before the first
\* publish of the call
client_update(idx, line) ==
    LET args == split(line)
        progress == IF Len(args) = 3 THEN Ratio(Num(args[2]), Num(args[3]))
                    ELSE IF IsNum(args[2]) THEN Ratio(Num(args[2]), 100)
                    ELSE Raw(args[2])
    IN IF args = <<>> THEN Raises
       ELSE IF args[1] = "progress"
       THEN IF Len(args) = 3 /\ ~(IsNum(args[2]) /\ IsNum(args[3]) /\ Num(args[3]) # 0)
            THEN Raises
            ELSE IF Len(args) < 2 THEN Raises
            ELSE Returns(<<<<"log", Log(0)>>,
                           <<SessTopic(idx, "progress"), progress>>,
                           <<"client-progress", <<idx, progress>>>>>>)
       ELSE IF args[1] = "alert"
       THEN IF Len(args) < 2 THEN Raises
            ELSE Returns(<<<<"log", Log(0)>>,
                           <<SessTopic(idx, "alert"), args[2]>>,
                           <<"client-alert", <<idx, args[2]>>>>>>)
       ELSE IF args[1] = "done"
       THEN Returns(<<<<"log", Log(0)>>, <<"client-done", idx>>>>)
       ELSE IF args[1] = "keepalive"
       THEN Returns(<<<<"log", Log(0)>>, <<SessTopic(idx, "keepalive"), "None">>>>)
       ELSE Returns(<<>>)

\* the services Server.__init__ registers that take part in a session
SessObjs == {"notification", "curses", "listener", "handler", "client", "screen"}

\* the orders in which pub can iterate a subscriber set: log is the one
\* topic with two subscribers
SessOrders ==
    {<<"notification", "curses", "listener", "handler", "client", "screen">>,
     <<"curses", "notification", "listener", "handler", "client", "screen">>}

\* the topics whose publishes are recorded
Watched == {"client-join", "client-progress", "client-done", "client-leave"}

\* the calls a handler makes, applied in order to st, the state it runs in:
\* the event loop's tasks, the waiters, the topic registry, the subscription
\* tables, the records, the counter and the readers; ok is false once a call
\* has raised, and the calls after it are not made
s_pub(st, t, v) ==
    IF ~st.ok THEN st
    ELSE IF ~HasTopic(st.topics, t) THEN [st EXCEPT !.ok = FALSE]
    ELSE LET order == SelectSeq(st.ord, LAMBDA n : n \in _get_topic(st.topics, t))
         IN [st EXCEPT
                !.ready = @ \o pub(services, st.topics, t, v, st.awaiter_counter, order),
                !.task_awaiters = Put(@, st.awaiter_counter, TaskAwaiter(Len(order))),
                !.awaiter_counter = @ + 1,
                !.events = IF t \in Watched THEN Append(@, <<t, v>>) ELSE @]

RECURSIVE s_pubs(_, _)
s_pubs(st, ps) ==
    IF ps = <<>> THEN st ELSE s_pubs(s_pub(st, Head(ps)[1], Head(ps)[2]), Tail(ps))

s_create_topic(st, t) ==
    IF ~st.ok THEN st
    ELSE IF ~CanCreate(st.topics, t) THEN [st EXCEPT !.ok = FALSE]
    ELSE [st EXCEPT !.topics = create_topic(@, t)]

RECURSIVE s_create_topics(_, _)
s_create_topics(st, ts) ==
    IF ts = <<>> THEN st ELSE s_create_topics(s_create_topic(st, Head(ts)), Tail(ts))

s_sub(st, o, t) ==
    IF ~st.ok THEN st
    ELSE IF ~CanSub(st.subs, manager, o, t) THEN [st EXCEPT !.ok = FALSE]
    ELSE LET st1 == [st EXCEPT
                        !.subs[o] = Put(@, t, [queue |-> <<>>, loop |-> "start"]),
                        !.ready = Append(@, ListenerTask(o, t))]
         IN IF CanRegisterSub(services, st.topics, t, o)
            THEN [st1 EXCEPT !.topics = _register_sub(@, t, o)]
            ELSE [st1 EXCEPT !.ok = FALSE]

\* run_as_task(_reader()) for the connection c of the session idx
ReaderTask(c, k) == Item("reader", "handler", "-", c, k)
s_run_as_task(st, c, idx) ==
    IF ~st.ok THEN st
    ELSE [st EXCEPT
            !.ready = @ \o <<ReaderTask(c, st.awaiter_counter), AwaitTask(st.awaiter_counter)>>,
            !.task_awaiters = Put(@, st.awaiter_counter, TaskAwaiter(1)),
            !.readers = [@ EXCEPT ![c + 1] =
                            [idx |-> idx, aw |-> st.awaiter_counter, pc |-> "new"]],
            !.awaiter_counter = @ + 1]

\* ClientHandlerService.new_client for the connection c
new_client_call(c, st) ==
    LET idx == new_client(st.counter).idx
        st1 == [st EXCEPT !.counter = new_client(st.counter).counter]
        st2 == s_pubs(st1, <<<<"client-join", <<idx, Prefix(idx)>>>>, <<"log", Log(0)>>>>)
        st3 == s_create_topics(st2, [i \in 1..Len(SessLeaves) |-> SessTopic(idx, SessLeaves[i])])
        st4 == s_sub(s_sub(st3, "handler", SessTopic(idx, "recv")),
                     "handler", SessTopic(idx, "send"))
    IN s_run_as_task(st4, c, idx)

\* a handler of ClientService: the records after it and what it publishes
client_call(r, st) ==
    s_pubs([st EXCEPT !.clients = r.clients],
           [i \in 1..Len(r.out) |-> <<r.out[i][1], r.out[i]>>])

\* the func of the subscription (o, t) of server.py called on the event e
handler(o, t, e, st) ==
    IF t = "listener" THEN new_client_call(e, st)
    ELSE IF t = "client-join" THEN client_call(on_client_join(st.clients, e[1], e[2]), st)
    ELSE IF t = "client-progress"
    THEN client_call(on_client_progress(st.clients, e[1], e[2]), st)
    ELSE IF t = "client-done" THEN client_call(on_client_done(st.clients, e), st)
    ELSE IF t = "client-leave" THEN client_call(on_client_leave(st.clients, e), st)
    ELSE IF t = "client-rename"
    THEN IF ListIndex(st.clients, e[1]) = 0 THEN [st EXCEPT !.ok = FALSE]
         ELSE client_call(on_rename(st.clients, e[1], e[2]), st)
    ELSE IF o = "screen" /\ t = "client-refresh" THEN s_pub(st, "line", e)
    ELSE IF \E i \in 0..MaxConn : t = SessTopic(i, "recv")
    THEN LET idx == CHOOSE i \in 0..MaxConn : t = SessTopic(i, "recv")
             r == client_update(idx, e)
         IN IF r.ok THEN s_pubs(st, r.pubs) ELSE [st EXCEPT !.ok = FALSE]
    ELSE st

\* _topic_listener of a subscription of server.py, from its await of
\* queue.get to its next suspension.  server.py closes no topic, so these
\* queues never hold the sentinel
RECURSIVE server_listener(_, _, _, _)
server_listener(o, t, q, st) ==
    IF q = <<>> THEN [queue |-> q, loop |-> "waiting", st |-> st]
    ELSE LET st1 == handler(o, t, Head(q), st)
         IN IF st1.ok THEN server_listener(o, t, Tail(q), st1)
            ELSE [queue |-> Tail(q), loop |-> "failed", st |-> st1]

\* the state the handlers run in, rd being the event loop's queue
SessState(rd, ord) ==
    [ready |-> rd, task_awaiters |-> task_awaiters,
     awaiter_counter |-> awaiter_counter, topics |-> topics, subs |-> subs,
     clients |-> clients, counter |-> counter, readers |-> readers,
     events |-> events, ord |-> ord, ok |-> TRUE]

\* the variables after the handlers have run
SessApply(st) ==
    /\ ready' = st.ready
    /\ task_awaiters' = st.task_awaiters
    /\ awaiter_counter' = st.awaiter_counter
    /\ topics' = st.topics
    /\ subs' = st.subs
    /\ clients' = st.clients
    /\ counter' = st.counter
    /\ readers' = st.readers
    /\ events' = st.events

\* a consumer loop of server.py runs
RunHandler ==
    /\ ready # <<>>
    /\ Head(ready).kind = "listener"
    /\ LET o == Head(ready).obj
           t == Head(ready).topic
       IN \E ord \in SessOrders :
            LET r == server_listener(o, t, subs[o][t].queue, SessState(Tail(ready), ord))
            IN /\ SessApply([r.st EXCEPT
                                !.subs[o][t] = [queue |-> r.queue, loop |-> r.loop]])
               /\ result' = Res("listener", r.loop # "failed")
    /\ UNCHANGED <<services, manager, signalled, handled, expect, phase, closed>>
    /\ UNCHANGED <<joinq, rename_loop, out, assigned, sess>>
    /\ UNCHANGED <<extVars, stream, eof, fed>>

\* _reader from its start, or from the readuntil that suspended it, to its
\* next suspension or its end: readuntil returns at once while a line is
\* buffered, raises IncompleteReadError at the end of the stream, and
\* suspends otherwise
RECURSIVE _reader(_, _, _)
_reader(idx, buf, st) ==
    IF buf = <<>> THEN st
    ELSE _reader(idx, Tail(buf), s_pub(st, SessTopic(idx, "recv"), Head(buf)))

RunReader ==
    /\ ready # <<>>
    /\ Head(ready).kind = "reader"
    /\ LET c == Head(ready).val
           k == Head(ready).aw
           idx == readers[c + 1].idx
       IN \E ord \in SessOrders :
            LET st1 == _reader(idx, stream[c + 1], SessState(Tail(ready), ord))
            IN IF c \in eof
               THEN LET st2 == s_pub(st1, "client-leave", idx)
                    IN SessApply([st2 EXCEPT
                            !.readers[c + 1].pc = "done",
                            !.task_awaiters[k].done = @ + 1,
                            !.ready = @ \o (IF st2.task_awaiters[k].started
                                            THEN <<OnCompletion(k)>> ELSE <<>>)])
               ELSE SessApply([st1 EXCEPT !.readers[c + 1].pc = "blocked"])
    /\ stream' = [stream EXCEPT ![Head(ready).val + 1] = <<>>]
    /\ result' = Res("reader", TRUE)
    /\ UNCHANGED <<services, manager, signalled, handled, expect, phase, closed>>
    /\ UNCHANGED <<joinq, rename_loop, out, assigned, sess>>
    /\ UNCHANGED <<extVars, eof, fed>>

\* a worker connects: ListenerService's connect callback publishes the
\* connection on the topic listener
Connect ==
    /\ Len(stream) < MaxConn
    /\ \E ord \in SessOrders :
          SessApply(s_pub([SessState(ready, ord) EXCEPT
                              !.readers = Append(readers,
                                    [idx |-> NoId, aw |-> NoAwaiter, pc |-> "none"])],
                          "listener", Len(stream)))
    /\ stream' = Append(stream, <<>>)
    /\ fed' = Append(fed, <<>>)
    /\ result' = Res("connect", TRUE)
    /\ UNCHANGED <<services, manager, signalled, handled, expect, phase, closed>>
    /\ UNCHANGED <<joinq, rename_loop, out, assigned, sess>>
    /\ UNCHANGED <<extVars, eof>>

\* the data or the end of the stream c arrives: a reader suspended in
\* readuntil is woken
Wake(c) ==
    /\ readers' = IF readers[c + 1].pc = "blocked"
                  THEN [readers EXCEPT ![c + 1].pc = "woken"] ELSE readers
    /\ ready' = IF readers[c + 1].pc = "blocked"
                THEN Append(ready, ReaderTask(c, readers[c + 1].aw)) ELSE ready

\* the worker of the connection c sends a line
Feed(c, line) ==
    /\ c < Len(stream)
    /\ c \notin eof
    /\ Len(fed[c + 1]) < MaxLines
    /\ stream' = [stream EXCEPT ![c + 1] = Append(@, line)]
    /\ fed' = [fed EXCEPT ![c + 1] = Append(@, line)]
    /\ Wake(c)
    /\ UNCHANGED <<services, topics, manager, subs, task_awaiters, awaiter_counter,
                   signalled, handled, expect, phase, closed, result>>
    /\ UNCHANGED <<regVars, extVars, eof, events>>

\* the worker of the connection c closes it
Close(c) ==
    /\ c < Len(stream)
    /\ c \notin eof
    /\ eof' = eof \cup {c}
    /\ Wake(c)
    /\ UNCHANGED <<services, topics, manager, subs, task_awaiters, awaiter_counter,
                   signalled, handled, expect, phase, closed, result>>
    /\ UNCHANGED <<regVars, extVars, stream, fed, events>>

\* the subscriptions Server.__init__ leaves that a session's events reach,
\* in the order they are made; the keyboard's topics stay silent
SessWiring ==
    <<<<"notification", "log">>, <<"curses", "line">>, <<"curses", "log">>,
      <<"handler", "listener">>, <<"client", "client-rename">>,
      <<"client", "client-join">>, <<"client", "client-leave">>,
      <<"client", "client-done">>, <<"client", "client-progress">>,
      <<"screen", "client-refresh">>>>

SessWired(o, t) == \E i \in 1..Len(SessWiring) : SessWiring[i] = <<o, t>>

\* the topics Server.__init__ leaves
SessTopics ==
    {"log", "notification", "curses", "raw-input", "line", "cursor", "color",
     "edit/start", "edit/end", "input", "listener", "handler", "client-join",
     "client-leave", "client-done", "client-progress", "client-alert", "client",
     "client-refresh", "client-rename", "screen"}

\* the server once the event loop has run every task Server.__init__ made:
\* every consumer loop waits on its queue, and no worker has connected
InitSess ==
    /\ services = [n \in SessObjs \cup {"raw-input"} |-> n]
    /\ manager = SessObjs \cup {"raw-input"}
    /\ topics = [t \in SessTopics |-> {o \in SessObjs : SessWired(o, t)}]
    /\ subs = [o \in SessObjs |->
                 [t \in {x \in SessTopics : SessWired(o, x)} |->
                     [queue |-> <<>>, loop |-> "waiting"]]]
    /\ ready = <<>>
    /\ task_awaiters = [x \in {} |-> TaskAwaiter(0)]
    /\ awaiter_counter = 0
    /\ signalled = {}
    /\ handled = [o \in AllObjs |-> [t \in TopicNames |-> <<>>]]
    /\ expect = [o \in AllObjs |-> [t \in TopicNames |-> <<>>]]
    /\ phase = [o \in AllObjs |-> [t \in TopicNames |-> "none"]]
    /\ closed = {}
    /\ result = Res("init", TRUE)
    /\ clients = <<>>
    /\ counter = 0
    /\ joinq = <<>>
    /\ rename_loop = "waiting"
    /\ out = <<>>
    /\ assigned = <<>>
    /\ sess = [i \in Ids |-> [st |-> "new", done |-> FALSE, prog |-> 0, slot |-> NoId]]
    /\ quit = FALSE
    /\ wait_pc = "idle"
    /\ waiting_on = NoAwaiter
    /\ coros = [x \in {} |-> "blocked"]
    /\ stream = <<>>
    /\ eof = {}
    /\ readers = <<>>
    /\ fed = <<>>
    /\ events = <<>>

NextSess ==
    \/ Connect
    \/ \E c \in 0..(MaxConn - 1), line \in Lines : Feed(c, line)
    \/ \E c \in 0..(MaxConn - 1) : Close(c)
    \/ RunReader
    \/ RunHandler
    \/ RunOnPub
    \/ RunAwaitTasks
    \/ RunOnCompletion
    \/ RunAwaitResume

SpecSess == InitSess /\ [][NextSess]_vars

NextReg ==
    \/ NewClient
    \/ OnClientJoin
    \/ \E i \in Ids, v \in ProgressVals : OnClientProgress(i, v)
    \/ \E i \in Ids : OnClientDone(i)
    \/ \E i \in Ids : OnClientLeave(i)
    \/ \E idx \in Cursors, newname \in NewNames : OnRename(idx, newname)

SpecReg == Init /\ [][NextReg]_vars

Next ==
    \/ \E t \in OpTopics : CreateTopic(t)
    \/ \E o \in Objs : Register(o)
    \/ \E o \in Objs, t \in OpTopics : Sub(o, t)
    \/ \E t \in OpTopics, v \in Values : Pub(t, v)
    \/ \E t \in OpTopics : CloseTopic(t)
    \/ RunOnPub
    \/ RunListener
    \/ RunAwaitTasks
    \/ RunOnCompletion
    \/ RunAwaitResume

Spec == Init /\ [][Next]_vars

\* ---------------------------------------------- properties of the bus
IsPrefix(a, b) == Len(a) <= Len(b) /\ SubSeq(b, 1, Len(a)) = a

\* C1: the handler of a subscription is called on the values published to its
\* topic since the subscription, each once and in the order of the publishes
\* (what it has handled is always a prefix of what was published), and when
\* the event loop has nothing left to run it has handled all of them.
C1_FifoExactlyOnce ==
    \A o \in Objs, t \in TopicNames :
        /\ IsPrefix(handled[o][t], expect[o][t])
        /\ ready = <<>> => handled[o][t] = expect[o][t]

\* two publishes, 2 then 1, handled in that order by both subscribers
C1_Witness ==
    /\ handled["o1"]["t1"] = <<2, 1>>
    /\ handled["o2"]["t1"] = <<2, 1>>

\* C2: a publish to a name that is not in the topic registry fails, and a
\* create_topic of a name that is in it fails; both leave the registry, the
\* subscriber sets, the queues and the event loop's tasks as they were.
C2_UnknownAndDuplicateFail ==
    [][\A t \in TopicNames :
        /\ \A v \in Values :
            (t \notin DOMAIN topics /\ Pub(t, v))
                => result' = Res("pub", FALSE) /\ UNCHANGED busVars
        /\ (t \in DOMAIN topics /\ CreateTopic(t))
                => result' = Res("create_topic", FALSE) /\ UNCHANGED busVars
      ]_vars

\* a second create_topic of a topic that has both subscribers has failed
C2_Witness ==
    /\ result = Res("create_topic", FALSE)
    /\ "t1" \in DOMAIN topics
    /\ topics["t1"] = Names

\* C3: the handler is never called on the sentinel; a consumer loop that has
\* ended has handled every value published to its topic before the close;
\* and once the event loop has nothing left to run, the loop of every
\* service that was subscribed when the topic was closed has ended.
C3_SentinelEndsLoops ==
    \A o \in Objs, t \in TopicNames :
        /\ \A i \in 1..Len(handled[o][t]) : handled[o][t][i] # QUIT
        /\ t \in DOMAIN subs[o] /\ subs[o][t].loop = "done"
            => phase[o][t] = "closed" /\ handled[o][t] = expect[o][t]
        /\ phase[o][t] = "closed" /\ ready = <<>>
            => subs[o][t].loop = "done" /\ handled[o][t] = expect[o][t]

\* a value was published and the topic closed: both loops handled the value
\* and ended, after the topic had left the registry
C3_Witness ==
    /\ "t1" \notin DOMAIN topics
    /\ \A o \in Objs :
        /\ phase[o]["t1"] = "closed"
        /\ subs[o]["t1"].loop = "done"
        /\ handled[o]["t1"] = <<1>>

\* C4: while a topic is closed and not created again, every publish to it
\* and every subscribe to it by a registered service fails; the failed
\* publish changes nothing, the failed subscribe creates no delivery and
\* calls no handler, and the consumer loop it leaves behind handles nothing.
C4_ClosedTopicRejects ==
    /\ [](\A o \in Objs, t \in TopicNames :
            phase[o][t] = "orphan" => handled[o][t] = <<>>)
    /\ [][\A t \in closed :
            /\ \A v \in Values :
                Pub(t, v) => result' = Res("pub", FALSE) /\ UNCHANGED busVars
            /\ \A o \in manager :
                Sub(o, t) => /\ result' = Res("sub", FALSE)
                             /\ ready' \in {ready, Append(ready, ListenerTask(o, t))}
                             /\ UNCHANGED <<topics, handled, expect, task_awaiters>>
         ]_vars

\* after the close, a subscribe by the service that was not subscribed has
\* failed, and the service that was subscribed has handled its value
C4_Witness ==
    /\ "t1" \in closed
    /\ result = Res("sub", FALSE)
    /\ phase["o1"]["t1"] = "closed"
    /\ handled["o1"]["t1"] = <<1>>
    /\ phase["o2"]["t1"] = "orphan"

\* C11: a waiter that was created is in the manager's set of outstanding
\* waiters exactly when its completion event is not signalled; the event of a
\* waiter is signalled only by a step in which every task it tracks has
\* completed, and that step removes the waiter's own entry and no other; and
\* a new entry takes an id that no waiter had before.
C11_PendingSet ==
    /\ [](/\ DOMAIN task_awaiters \cup signalled = 0..(awaiter_counter - 1)
          /\ DOMAIN task_awaiters \cap signalled = {})
    /\ [][/\ \A k \in signalled' \ signalled :
               /\ k \in DOMAIN task_awaiters
               /\ task_awaiters[k].done = task_awaiters[k].total
               /\ DOMAIN task_awaiters' = DOMAIN task_awaiters \ {k}
          /\ signalled \subseteq signalled'
          /\ \A j \in DOMAIN task_awaiters' \ DOMAIN task_awaiters :
               j >= awaiter_counter /\ j < awaiter_counter'
         ]_vars

\* the waiter of a coroutine that has returned is signalled, while the waiter
\* of a publish whose delivery has completed is still outstanding
C11_Witness ==
    /\ \E k \in DOMAIN coros : coros[k] = "done" /\ k \in signalled
    /\ \E j \in DOMAIN task_awaiters :
            /\ j \notin DOMAIN coros
            /\ task_awaiters[j].total = 1
            /\ task_awaiters[j].done = 1

\* C12: every name in the subscriber set of a topic of the registry is the
\* name of a registered service, and a subscribe by a service object that was
\* not registered fails and leaves every subscriber set, and the registry,
\* as they were.
C12_SubscribersRegistered ==
    /\ [](\A t \in DOMAIN topics : topics[t] \subseteq DOMAIN services)
    /\ [][\A o \in AllObjs, t \in TopicNames :
            (o \notin manager /\ Sub(o, t))
                => result' = Res("sub", FALSE) /\ UNCHANGED <<topics, services, subs>>
         ]_vars

\* o2 is registered and subscribed to t1, and a subscribe by o3, which has
\* the same name and is not registered, has failed
C12_Witness ==
    /\ result = Res("sub", FALSE)
    /\ manager = {"o2"}
    /\ "t1" \in DOMAIN topics
    /\ topics["t1"] = {"s2"}
    /\ DOMAIN subs["o3"] = {}

\* C13: a call of wait sets the quit flag itself, so that once it is called
\* the flag is set; and when it has been called, every tracked unit of work
\* has completed and the event loop has nothing left to run, it has returned.
C13_WaitSetsQuitAndReturns ==
    /\ wait_pc # "idle" => quit
    /\ (wait_pc # "idle" /\ DOMAIN task_awaiters = {} /\ ready = <<>>)
            => wait_pc = "returned"

\* C14: the step in which wait returns leaves no tracked work and none to
\* come from what was accepted: the flag is set, no waiter is outstanding, no
\* task of a delivery, a waiter or a coroutine is left to run, every queue is
\* empty, every coroutine has returned, every subscription has handled what
\* it was owed, and every value o1 was owed on the topic of s2 has been
\* published again by its handler and handled by o2.
C14_TransitiveDrain ==
    [][(wait_pc # "returned" /\ wait_pc' = "returned")
        => /\ quit'
           /\ DOMAIN task_awaiters' = {}
           /\ \A i \in 1..Len(ready') : ready'[i].kind = "listener"
           /\ \A o \in Objs : \A t \in DOMAIN subs'[o] : subs'[o][t].queue = <<>>
           /\ \A k \in DOMAIN coros' : coros'[k] = "done"
           /\ \A o \in Objs, t \in TopicNames : handled'[o][t] = expect'[o][t]
           /\ handled'["o2"]["s1"] = expect'["o1"]["s2"]
      ]_vars

\* wait, resumed by the signal of the last waiter, has returned after o2
\* handled the value that the handler of o1 published again
C14_Witness ==
    /\ wait_pc = "returned"
    /\ result = Res("done_wait", TRUE)
    /\ expect["o1"]["s2"] = <<1>>
    /\ handled["o2"]["s1"] = <<1>>
    /\ signalled = {0, 1}

\* the values of s up to the first one the handler of (o, t) raises on
RECURSIVE UntilRaise(_, _, _)
UntilRaise(o, t, s) ==
    IF s = <<>> \/ ~func(o, t, Head(s)).ok THEN <<>>
    ELSE <<Head(s)>> \o UntilRaise(o, t, Tail(s))

\* C16: the handler o1 gave for log raises on the value 1.  Only the
\* consumer loop of (o1, log) ever ends by an exception, and it has handled
\* the values before the one it raised on; every other subscription, the
\* one of o2 to log and the one of o1 to the topic of s2 included, handles
\* the values published to it in order and, when the event loop has nothing
\* left to run, all of them; every publish and every delivery task succeeds,
\* a delivery to the ended loop's queue too; and when the event loop has
\* nothing left to run no waiter is outstanding.
C16_CrashIsolated ==
    /\ \A o \in Objs : \A t \in DOMAIN subs[o] :
        /\ subs[o][t].loop = "failed" => o = "o1" /\ t = "log"
        /\ IsPrefix(handled[o][t], UntilRaise(o, t, expect[o][t]))
        /\ ready = <<>> => handled[o][t] = UntilRaise(o, t, expect[o][t])
        /\ <<o, t>> # <<"o1", "log">> => UntilRaise(o, t, expect[o][t]) = expect[o][t]
    /\ (ready = <<>> /\ \E i \in 1..Len(expect["o1"]["log"]) : expect["o1"]["log"][i] = 1)
            => subs["o1"]["log"].loop = "failed"
    /\ result.op \in {"pub", "on_pub"} => result.ok
    /\ ready = <<>> => DOMAIN task_awaiters = {}

\* the loop of (o1, log) ended on the value 1; the publish of 2 to log that
\* came after it was delivered to both queues, handled by o2 and left in
\* the queue of o1, and both waiters have completed
C16_Witness ==
    /\ subs["o1"]["log"].loop = "failed"
    /\ subs["o1"]["log"].queue = <<2>>
    /\ handled["o1"]["log"] = <<>>
    /\ handled["o2"]["log"] = <<1, 2>>
    /\ signalled = {0, 1}
    /\ ready = <<>>

\* C17: a register of a service object whose name is a topic of the
\* registry, as the name of every registered service is, fails and leaves
\* the map from names to service objects as it was.
C17_NamesUnique ==
    [][\A o \in AllObjs :
        (name(o) \in DOMAIN topics /\ Register(o))
            => result' = Res("register", FALSE) /\ services' = services
      ]_vars

\* the number of elements of s that satisfy Test
Count(s, Test(_)) == Cardinality({i \in 1..Len(s) : Test(s[i])})

\* C15: a malformed line is not fatal to its session: once the event loop
\* is idle and every line a worker has sent has been read, client-done has
\* been published for the session's id once for every line "done" the worker
\* sent, whatever malformed lines it sent before them.
C15_MalformedNonFatal ==
    \A c \in 1..Len(fed) :
        (ready = <<>> /\ stream[c] = <<>> /\ readers[c].pc \in {"blocked", "done"})
            => Count(events, LAMBDA e : e[1] = "client-done" /\ e[2] = readers[c].idx)
                    = Count(fed[c], LAMBDA l : l = "done")

\* C18: a worker that has sent the line "done" and nothing else never has a
\* record with the status Error, whenever it closes its connection and
\* however the reader, the delivery tasks and the consumer loops interleave.
C18_DoneThenCloseSucceeds ==
    \A c \in 1..Len(fed) :
        fed[c] = <<"done">>
            => \A k \in 1..Len(clients) :
                    clients[k].name = Prefix(readers[c].idx)
                        => clients[k].status # Error

\* C19: a subscribe by a registered service to a name that is not in the
\* topic registry fails and leaves the service's subscription table, the
\* tasks of the event loop and the subscriber sets as they were; and a
\* subscribe by a registered service that has no successful subscription to
\* the topic, to a topic that is in the registry, succeeds.
C19_FailedSubNoEffect ==
    [][\A o \in manager, t \in TopicNames :
        /\ (t \notin DOMAIN topics /\ Sub(o, t))
                => result' = Res("sub", FALSE) /\ UNCHANGED <<subs, ready, topics>>
        /\ (t \in DOMAIN topics /\ phase[o][t] \in {"none", "orphan"} /\ Sub(o, t))
                => result' = Res("sub", TRUE)
      ]_vars

\* C20: the service object that the registry maps a subscriber's name to
\* holds a queue for the topic, every delivery task in the event loop has
\* its target queue, and no delivery task fails on its assertion.
C20_DeliverySafe ==
    /\ \A t \in DOMAIN topics : \A n \in topics[t] : t \in DOMAIN subs[services[n]]
    /\ \A i \in 1..Len(ready) :
            ready[i].kind = "on_pub" => ready[i].topic \in DOMAIN subs[ready[i].obj]
    /\ result.op = "on_pub" => result.ok

\* ------------------------------ properties of the worker registry
\* the session a record last took: ids are joined in increasing order
Owners(c) == {i \in Ids : sess[i].st # "new" /\ sess[i].slot = c.listidx}
Owner(c) == CHOOSE i \in Owners(c) : \A j \in Owners(c) : j <= i

\* C5: when the leave of a joined session is handled, its record gets id -1
\* and status Success if the session's done was handled after its join,
\* Error if not; and a record's status only changes from Recording to
\* Success in on_client_done, from Recording to Error in on_client_leave,
\* and to Recording in on_client_join.
C5_Lifecycle ==
    [][/\ \A i \in Ids :
            (OnClientLeave(i) /\ sess[i].st = "live")
                => /\ clients'[sess[i].slot + 1].idx = NoId
                   /\ clients'[sess[i].slot + 1].status =
                        IF sess[i].done THEN Success ELSE Error
       /\ \A k \in 1..Len(clients) :
            clients'[k].status # clients[k].status
                => \/ /\ clients[k].status = Recording
                      /\ clients'[k].status = Success
                      /\ \E i \in Ids : OnClientDone(i)
                   \/ /\ clients[k].status = Recording
                      /\ clients'[k].status = Error
                      /\ \E i \in Ids : OnClientLeave(i)
                   \/ /\ clients'[k].status = Recording
                      /\ OnClientJoin
      ]_vars

\* session 0 joined, progressed, was done and left; session 1 joined and left
C5_Witness ==
    /\ Len(clients) = 2
    /\ sess[0].st = "gone" /\ sess[0].done /\ sess[0].prog = 1
    /\ clients[sess[0].slot + 1].status = Success
    /\ clients[sess[0].slot + 1].idx = NoId
    /\ sess[1].st = "gone" /\ ~sess[1].done
    /\ clients[sess[1].slot + 1].status = Error
    /\ clients[sess[1].slot + 1].idx = NoId

\* C6: a join handled while some record has id -1 adds no record: one record
\* with id -1 gets the new id, status Recording and progress 0 and keeps its
\* slot and the others are untouched; with no such record, a record whose
\* slot is the previous number of records is appended.
C6_SlotReuse ==
    [][OnClientJoin =>
        LET j == Head(joinq)[1]
            free == {k \in 1..Len(clients) : clients[k].idx = NoId}
        IN IF free # {}
           THEN \E k \in free :
                    clients' = [clients EXCEPT ![k].idx = j,
                                               ![k].status = Recording,
                                               ![k].progress = 0]
           ELSE /\ Len(clients') = Len(clients) + 1
                /\ SubSeq(clients', 1, Len(clients)) = clients
                /\ clients'[Len(clients')].listidx = Len(clients)
                /\ clients'[Len(clients')].idx = j
                /\ clients'[Len(clients')].status = Recording
                /\ clients'[Len(clients')].progress = 0
      ]_vars

\* session 1 has joined into the record that session 0 left
C6_Witness ==
    /\ Len(clients) = 1
    /\ sess[0].st = "gone"
    /\ sess[1].st = "live"
    /\ sess[1].slot = sess[0].slot
    /\ clients[1].idx = 1

\* C7: a progress, done or leave for an id that no record holds leaves the
\* list of records as it was and publishes one warning on the log topic and
\* nothing else.
C7_UnknownIdWarns ==
    [][\A i \in Ids :
        (\A k \in 1..Len(clients) : clients[k].idx # i)
            => /\ \A v \in ProgressVals :
                    OnClientProgress(i, v)
                        => clients' = clients /\ out' = <<Log(2)>>
               /\ OnClientDone(i) => clients' = clients /\ out' = <<Log(2)>>
               /\ OnClientLeave(i) => clients' = clients /\ out' = <<Log(2)>>
      ]_vars

\* an event for a session that has left, and one for an id never joined,
\* were answered by the warning alone
C7_Witness ==
    /\ out = <<Log(2)>>
    /\ Len(clients) = 1
    /\ sess[0].st = "gone"
    /\ sess[1].st = "new"

\* C8: every record shows what its own session did: while the session is
\* joined the record has its id, status Success if its done was handled and
\* Recording if not, and the last progress handled for it; once its leave is
\* handled the record has id -1, status Success if its done was handled and
\* Error if not, and that same progress.
C8_SessionsIsolated ==
    /\ \A k \in 1..Len(clients) :
        /\ Owners(clients[k]) # {}
        /\ clients[k].progress = sess[Owner(clients[k])].prog
        /\ IF sess[Owner(clients[k])].st = "live"
           THEN /\ clients[k].idx = Owner(clients[k])
                /\ clients[k].status =
                     IF sess[Owner(clients[k])].done THEN Success ELSE Recording
           ELSE /\ clients[k].idx = NoId
                /\ clients[k].status =
                     IF sess[Owner(clients[k])].done THEN Success ELSE Error
    /\ \A i \in Ids :
        sess[i].st = "live"
            => /\ sess[i].slot + 1 \in 1..Len(clients)
               /\ clients[sess[i].slot + 1].idx = i

\* two sessions at once: session 1 progressed and left without done while
\* session 0, done, is still connected
C8_Witness ==
    /\ Len(clients) = 2
    /\ sess[0].st = "live" /\ sess[0].done /\ sess[0].prog = 0
    /\ sess[1].st = "gone" /\ ~sess[1].done /\ sess[1].prog = 1
    /\ clients[sess[1].slot + 1].status = Error
    /\ clients[sess[0].slot + 1].status = Success

\* C9: no two records have the same slot, and no step changes the slot of a
\* record or removes a record.
C9_SlotStable ==
    /\ [](\A k, l \in 1..Len(clients) :
            k # l => clients[k].listidx # clients[l].listidx)
    /\ [][\A k \in 1..Len(clients) :
            /\ k <= Len(clients')
            /\ clients'[k].listidx = clients[k].listidx]_vars

\* a record that was renamed and then taken by a later session
C9_Witness ==
    /\ Len(clients) = 1
    /\ clients[1].name \in NewNames
    /\ clients[1].idx = 1
    /\ clients[1].listidx = 0
    /\ sess[0].st = "gone"

\* C10: no two records have the same id other than -1, and no session id was
\* given to two connections.
C10_LiveIdsUnique ==
    /\ \A k, l \in 1..Len(clients) :
        k # l /\ clients[k].idx = clients[l].idx => clients[k].idx = NoId
    /\ \A a, b \in 1..Len(assigned) : a # b => assigned[a] # assigned[b]

\* two connections accepted and both sessions joined
C10_Witness ==
    /\ Len(assigned) = 2
    /\ Len(clients) = 2
    /\ \A k \in 1..Len(clients) : clients[k].idx # NoId

====
